---- MODULE Spec2Model ----
(***************************************************************************)
(* Task calendar store of src/app.py: st.session_state.tasks is a Python   *)
(* dict  date string -> dict  task id -> task dict.  Python dicts keep     *)
(* insertion order, so a dict is modelled as a sequence of entries         *)
(* [k |-> key, v |-> value] with pairwise distinct keys.                   *)
(***************************************************************************)
EXTENDS Integers, Sequences, FiniteSets, TLC

\* ---------------------------------------------------------------- bounds
MaxDay == 3          \* calendar days 1..MaxDay exist in the model
MaxId  == 3          \* uuid4 values ever generated
MaxTasks == 2        \* tasks the add form may bring the store to
MaxLen == 3          \* tasks of the bucket that is sorted

Days == 1..MaxDay

\* ------------------------------------------------------- Python dict ops
Keys(d) == {d[i].k : i \in DOMAIN d}

Has(d, key) == key \in Keys(d)

Idx(d, key) == CHOOSE i \in DOMAIN d : d[i].k = key

Get(d, key) == d[Idx(d, key)].v

\* d[key] = val : an existing key keeps its position, a new key goes last
Put(d, key, val) ==
    IF Has(d, key) THEN [d EXCEPT ![Idx(d, key)].v = val]
    ELSE Append(d, [k |-> key, v |-> val])

RECURSIVE Del(_, _)
\* del d[key]
Del(d, key) ==
    IF d = <<>> THEN <<>>
    ELSE IF Head(d).k = key THEN Tail(d)
    ELSE <<Head(d)>> \o Del(Tail(d), key)

\* task[name] = val on a task dict (a record whose domain may grow)
SetField(t, name, val) ==
    [f \in DOMAIN t \cup {name} |-> IF f = name THEN val ELSE t[f]]

\* ------------------------------------------------------------ dates, time
\* date_obj.strftime('%Y-%m-%d')
strftime(day) == ToString(day)

ValueError == 0 - 1

\* datetime.strptime(date_str, '%Y-%m-%d').date(), ValueError if no date
strptime(date_str) ==
    IF \E day \in Days : strftime(day) = date_str
    THEN CHOOSE day \in Days : strftime(day) = date_str
    ELSE ValueError

DateStrs == {strftime(day) : day \in Days}

\* -------------------------------------------------------------- variables
VARIABLES
    tasks,      \* st.session_state.tasks
    file,       \* content of tasks.json, NoFile when the file does not exist
    writable,   \* whether open('tasks.json', 'w') succeeds in this environment
    today,      \* datetime.now().date(); timestamps have day granularity
    nextId,     \* the next value uuid.uuid4() returns (values never repeat)
    last        \* the last call: its name, its outcome, the tasks it moved and
                \* the exception it raised to its caller

vars == <<tasks, file, writable, today, nextId, last>>

\* tasks.json does not exist
NoFile == [exists |-> FALSE]

\* JSON text is modelled by its parse tree: an object is a sequence of members
\* [k |-> name, v |-> value] in the order of the text (a task object is a
\* record of its members), a string is [str |-> s], true and false are
\* [lit |-> "true"] and [lit |-> "false"].

\* the JSON value written for task[name]: a bool becomes a literal, a str a
\* string; created_at and modified_at are isoformat() strings, of which the
\* model keeps the day
json_value(name, val) ==
    IF name = "completed" THEN [lit |-> IF val THEN "true" ELSE "false"]
    ELSE IF name \in {"created_at", "modified_at"} THEN [str |-> ToString(val)]
    ELSE [str |-> val]

\* the Python value read back from a JSON value
python_value(name, j) ==
    IF "lit" \in DOMAIN j THEN j.lit = "true"
    ELSE IF name \in {"created_at", "modified_at"} THEN strptime(j.str)
    ELSE j.str

\* faulty variant: only the keys add_task writes are encoded
json_task_known_keys(task) ==
    [name \in DOMAIN task \ {"modified_at", "moved_from"} |->
        json_value(name, task[name])]

\* a task dict as a JSON object: every key of the dict, whatever it is
json_task(task) == [name \in DOMAIN task |-> json_value(name, task[name])]

python_task(j) == [name \in DOMAIN j |-> python_value(name, j[name])]

\* a dict of task dicts as a JSON object, members in dict order
json_bucket(bucket) ==
    [i \in DOMAIN bucket |-> [k |-> bucket[i].k, v |-> json_task(bucket[i].v)]]

python_bucket(j) ==
    [i \in DOMAIN j |-> [k |-> j[i].k, v |-> python_task(j[i].v)]]

\* the store as a JSON object
json_store(store) ==
    [i \in DOMAIN store |-> [k |-> store[i].k, v |-> json_bucket(store[i].v)]]

\* the store json.load builds from a JSON object of buckets
python_store(j) ==
    [i \in DOMAIN j |-> [k |-> j[i].k, v |-> python_bucket(j[i].v)]]

\* json.dump(obj, f, default=str) / json.dumps: the text with parse tree obj
json_dumps(obj) == [exists |-> TRUE, valid |-> TRUE, doc |-> obj]

\* a text json.load rejects with JSONDecodeError
NotJson == [exists |-> TRUE, valid |-> FALSE]

\* json.load(f) of a text it accepts: its parse tree
json_load(f) == f.doc

\* ------------------------------------------------------------- save / load
\* save_tasks(): the write is attempted, a failure is swallowed
save_tasks(store) == IF writable THEN json_dumps(json_store(store)) ELSE file

\* load_tasks(): readable says whether an existing file can be opened and read
load_tasks(store, readable) ==
    IF ~file.exists THEN <<>>                         \* except FileNotFoundError
    ELSE IF ~readable \/ ~file.valid THEN store       \* except Exception
    ELSE IF store = <<>> THEN python_store(json_load(file))   \* if not ...tasks
    ELSE store

\* --------------------------------------------------------------- add_task
\* faulty variant: the bucket is replaced by one that holds only the new task
add_task_overwrites(store, date_str, title, priority, description, task_id, now) ==
    Put(store, date_str,
        <<[k |-> task_id,
           v |-> [title |-> title, description |-> description,
                  priority |-> priority, completed |-> FALSE,
                  created_at |-> now]]>>)

add_task(store, date_str, title, priority, description, task_id, now) ==
    LET s1 == IF ~Has(store, date_str) THEN Put(store, date_str, <<>>) ELSE store
        task == [title |-> title, description |-> description,
                 priority |-> priority, completed |-> FALSE,
                 created_at |-> now]
    IN Put(s1, date_str, Put(Get(s1, date_str), task_id, task))

\* ------------------------------------------------- toggle_task_completion
Found(store, date_str, task_id) ==
    Has(store, date_str) /\ Has(Get(store, date_str), task_id)

\* faulty variant: the flag is set instead of flipped
toggle_task_completion_set(store, date_str, task_id) ==
    IF Found(store, date_str, task_id)
    THEN LET bucket == Get(store, date_str)
             task == Get(bucket, task_id)
         IN Put(store, date_str,
                Put(bucket, task_id, [task EXCEPT !.completed = TRUE]))
    ELSE store

toggle_task_completion(store, date_str, task_id) ==
    IF Found(store, date_str, task_id)
    THEN LET bucket == Get(store, date_str)
             task == Get(bucket, task_id)
         IN Put(store, date_str,
                Put(bucket, task_id, [task EXCEPT !.completed = ~task.completed]))
    ELSE store

\* ------------------------------------------------------------ delete_task
\* faulty variant: the bucket stays when its last task is deleted
delete_task_keeps_bucket(store, date_str, task_id) ==
    IF Found(store, date_str, task_id)
    THEN Put(store, date_str, Del(Get(store, date_str), task_id))
    ELSE store

delete_task(store, date_str, task_id) ==
    IF Found(store, date_str, task_id)
    THEN LET s1 == Put(store, date_str, Del(Get(store, date_str), task_id))
         IN IF Get(s1, date_str) = <<>> THEN Del(s1, date_str) ELSE s1
    ELSE store

\* -------------------------------------------------------------- edit_task
\* faulty variant: the record is built anew instead of copied
updated_task_rebuilt(task, title, priority, description, now) ==
    [title |-> title, description |-> description, priority |-> priority,
     completed |-> FALSE, created_at |-> now, modified_at |-> now]

\* task = ...copy() with title, priority, description and modified_at set
updated_task(task, title, priority, description, now) ==
    SetField([task EXCEPT !.title = title, !.priority = priority,
                          !.description = description],
             "modified_at", now)

\* faulty variant: the task is not deleted from its old bucket
remove_from_old_kept(store, old_date_str, task_id) == store

\* "Remove from old date": the task leaves, and the bucket with its last task
remove_from_old(store, old_date_str, task_id) ==
    LET s1 == Put(store, old_date_str, Del(Get(store, old_date_str), task_id))
    IN IF Get(s1, old_date_str) = <<>> THEN Del(s1, old_date_str) ELSE s1

\* "Add to new date"
add_to_new(store, new_date_str, task_id, task) ==
    LET s1 == IF ~Has(store, new_date_str)
              THEN Put(store, new_date_str, <<>>) ELSE store
    IN Put(s1, new_date_str, Put(Get(s1, new_date_str), task_id, task))

\* the body of edit_task for a task that exists at old_date_str
edit_found(store, old_date_str, task_id, new_date_str, title, priority, description, now) ==
    LET task == updated_task(Get(Get(store, old_date_str), task_id),
                             title, priority, description, now)
    IN IF old_date_str # new_date_str
       THEN add_to_new(remove_from_old(store, old_date_str, task_id),
                       new_date_str, task_id, task)
       ELSE Put(store, old_date_str,
                Put(Get(store, old_date_str), task_id, task))

\* faulty variant: a task that does not exist is created under the new date
edit_task_create(store, old_date_str, task_id, new_date_str, title, priority, description, now) ==
    IF Found(store, old_date_str, task_id)
    THEN edit_found(store, old_date_str, task_id, new_date_str, title,
                    priority, description, now)
    ELSE add_to_new(store, new_date_str, task_id,
                    [title |-> title, description |-> description,
                     priority |-> priority, completed |-> FALSE,
                     created_at |-> now])

edit_task(store, old_date_str, task_id, new_date_str, title, priority, description, now) ==
    IF Found(store, old_date_str, task_id)
    THEN edit_found(store, old_date_str, task_id, new_date_str, title,
                    priority, description, now)
    ELSE store

\* -------------------------------------------------- move_incomplete_tasks
\* faulty variant: completed tasks are collected as well
should_move_any(task) == TRUE

\* if not task['completed']
should_move(task) == ~task.completed

RECURSIVE tasks_to_move(_)
\* the (task_id, task) pairs of a bucket whose task is not completed
tasks_to_move(bucket) ==
    IF bucket = <<>> THEN <<>>
    ELSE IF should_move(Head(bucket).v)
         THEN <<Head(bucket)>> \o tasks_to_move(Tail(bucket))
         ELSE tasks_to_move(Tail(bucket))

\* faulty variant: today's own bucket is scanned as well
is_past_or_today(date_str, day) ==
    LET date_obj == strptime(date_str)
    IN date_obj # ValueError /\ date_obj <= day

\* date_obj < today, for a key that parses
is_past(date_str, day) ==
    LET date_obj == strptime(date_str)
    IN date_obj # ValueError /\ date_obj < day

RECURSIVE dates_to_check(_, _)
\* the keys of the store that parse to a date before today, in key order
dates_to_check(store, day) ==
    IF store = <<>> THEN <<>>
    ELSE LET date_str == Head(store).k
         IN IF is_past(date_str, day)
            THEN <<date_str>> \o dates_to_check(Tail(store), day)
            ELSE dates_to_check(Tail(store), day)

\* faulty variant: the copy is not marked with its source date
rolled_copy_unmarked(task, date_str) == task

\* task.copy() with moved_from set to the source date
rolled_copy(task, date_str) == SetField(task, "moved_from", date_str)

RECURSIVE move_tasks(_, _, _, _)
\* the inner loop: one new record under today per task, the original deleted
move_tasks(st, date_str, today_str, to_move) ==
    IF to_move = <<>> THEN st
    ELSE LET task_id == Head(to_move).k
             task == Head(to_move).v
             s1 == IF ~Has(st.tasks, today_str)
                   THEN Put(st.tasks, today_str, <<>>) ELSE st.tasks
             new_task_id == st.next
             copy == rolled_copy(task, date_str)
             s2 == Put(s1, today_str, Put(Get(s1, today_str), new_task_id, copy))
             s3 == Put(s2, date_str, Del(Get(s2, date_str), task_id))
         IN move_tasks([tasks |-> s3, next |-> st.next + 1,
                        moved_count |-> st.moved_count + 1],
                       date_str, today_str, Tail(to_move))

RECURSIVE move_dates(_, _, _)
\* the outer loop over dates_to_check
move_dates(st, dates, today_str) ==
    IF dates = <<>> THEN st
    ELSE LET date_str == Head(dates)
         IN IF Has(st.tasks, date_str)
            THEN LET st1 == move_tasks(st, date_str, today_str,
                                       tasks_to_move(Get(st.tasks, date_str)))
                     st2 == IF Get(st1.tasks, date_str) = <<>>
                            THEN [st1 EXCEPT !.tasks = Del(st1.tasks, date_str)]
                            ELSE st1
                 IN move_dates(st2, Tail(dates), today_str)
            ELSE move_dates(st, Tail(dates), today_str)

\* move_incomplete_tasks(): the store, the next uuid and moved_count afterwards
move_incomplete_tasks(store, day, next) ==
    move_dates([tasks |-> store, next |-> next, moved_count |-> 0],
               dates_to_check(store, day), strftime(day))

\* ------------------------------------------------------- get_sorted_tasks
\* priority_order.get(priority, 4)
priority_order(priority) ==
    CASE priority = "High" -> 1
      [] priority = "Medium" -> 2
      [] priority = "Low" -> 3
      [] OTHER -> 4

\* the titles of the model in str order
TitleOrd == [t \in {"", "A", "B"} |-> CASE t = "" -> 0 [] t = "A" -> 1 [] t = "B" -> 2]

\* faulty variant: the key is (rank, title) only
sort_key_by_priority(task) ==
    <<0, priority_order(task.priority), TitleOrd[task.title]>>

\* the sort key (completed, rank, title), False before True
sort_key(task) ==
    <<IF task.completed THEN 1 ELSE 0, priority_order(task.priority),
      TitleOrd[task.title]>>

\* tuple comparison a < b
key_lt(a, b) ==
    \/ a[1] < b[1]
    \/ a[1] = b[1] /\ a[2] < b[2]
    \/ a[1] = b[1] /\ a[2] = b[2] /\ a[3] < b[3]

RECURSIVE insert_sorted_before_equal(_, _)
\* faulty variant: e goes before the entries whose key is equal
insert_sorted_before_equal(sorted_tasks, e) ==
    IF sorted_tasks = <<>> THEN <<e>>
    ELSE IF ~key_lt(sort_key(Head(sorted_tasks).v), sort_key(e.v))
         THEN <<e>> \o sorted_tasks
         ELSE <<Head(sorted_tasks)>> \o
              insert_sorted_before_equal(Tail(sorted_tasks), e)

RECURSIVE insert_sorted(_, _)
\* e goes after every entry whose key is not greater (sorted() is stable)
insert_sorted(sorted_tasks, e) ==
    IF sorted_tasks = <<>> THEN <<e>>
    ELSE IF key_lt(sort_key(e.v), sort_key(Head(sorted_tasks).v))
         THEN <<e>> \o sorted_tasks
         ELSE <<Head(sorted_tasks)>> \o insert_sorted(Tail(sorted_tasks), e)

RECURSIVE sorted(_)
\* sorted(tasks.items(), key=...)
sorted(items) ==
    IF items = <<>> THEN <<>>
    ELSE insert_sorted(sorted(SubSeq(items, 1, Len(items) - 1)), items[Len(items)])

get_sorted_tasks(store, date_str) ==
    IF ~Has(store, date_str) THEN <<>>
    ELSE sorted(Get(store, date_str))

\* ------------------------------------------------------- backup / restore
\* backup_tasks_to_browser(): the text of the backup document
backup_tasks_to_browser(store, now) ==
    json_dumps([tasks |-> json_store(store),
                export_date |-> [str |-> ToString(now)],
                version |-> [str |-> "1.0"]])

\* faulty variant: the store is emptied before the document is looked at
restore_tasks_from_backup_clears(store, uploaded_file) ==
    IF ~uploaded_file.valid
    THEN [tasks |-> <<>>, ok |-> FALSE, err |-> "invalid_json"]
    ELSE LET backup_data == json_load(uploaded_file)
         IN IF "tasks" \in DOMAIN backup_data
            THEN [tasks |-> python_store(backup_data.tasks), ok |-> TRUE,
                  err |-> "none"]
            ELSE [tasks |-> <<>>, ok |-> FALSE, err |-> "invalid_format"]

\* restore_tasks_from_backup(uploaded_file): the store and what it reported
restore_tasks_from_backup(store, uploaded_file) ==
    IF ~uploaded_file.valid
    THEN [tasks |-> store, ok |-> FALSE, err |-> "invalid_json"]
    ELSE LET backup_data == json_load(uploaded_file)
         IN IF "tasks" \in DOMAIN backup_data
            THEN [tasks |-> python_store(backup_data.tasks), ok |-> TRUE,
                  err |-> "none"]
            ELSE [tasks |-> store, ok |-> FALSE, err |-> "invalid_format"]

\* ------------------------------------------------------------------ inputs
\* what the add form submits: title, priority, description
AddForms ==
    { [title |-> "A", priority |-> "High", description |-> "a"],
      [title |-> "", priority |-> "Medium", description |-> ""] }

\* what the edit form submits
EditForms == { [title |-> "B", priority |-> "Low", description |-> "b"] }

\* task ids a caller may name, existing or not
Ids == 1..MaxId

\* the files a user uploads: no JSON, JSON without the tasks key, a tasks
\* mapping with one empty bucket under the first day, and the backup just
\* downloaded
Uploads ==
    {NotJson, json_dumps([version |-> [str |-> "1.0"]])}
    \cup {json_dumps([tasks |-> <<[k |-> key, v |-> <<>>]>>,
                      version |-> [str |-> "1.0"]]) :
             key \in {strftime(1)}}
    \cup {backup_tasks_to_browser(tasks, today)}

\* ------------------------------------------------------------------- state
RECURSIVE NumTasks(_)
\* sum(len(tasks) for tasks in st.session_state.tasks.values())
NumTasks(store) ==
    IF store = <<>> THEN 0 ELSE Len(Head(store).v) + NumTasks(Tail(store))

Init ==
    /\ tasks = <<>>
    /\ file = NoFile
    /\ writable = TRUE
    /\ today = 1
    /\ nextId = 1
    /\ last = [op |-> "init", res |-> "none", n |-> 0, raised |-> "none"]

\* a new browser session or process: session state starts with tasks = {},
\* and the first script run does load_tasks() and move_incomplete_tasks();
\* a snapshot that exists is readable when the session starts
NewSession ==
    LET loaded == load_tasks(<<>>, TRUE)
        st == move_incomplete_tasks(loaded, today, nextId)
    IN /\ st.next <= MaxId + 1
       /\ tasks' = st.tasks
       /\ nextId' = st.next
       /\ file' = IF st.moved_count > 0 THEN save_tasks(st.tasks) ELSE file
       /\ last' = [op |-> "new_session", res |-> "none", n |-> st.moved_count,
                   raised |-> "none"]
       /\ UNCHANGED <<writable, today>>

\* midnight passes; the clock stops a day before the calendar ends
Tick ==
    /\ today + 1 < MaxDay
    /\ today' = today + 1
    /\ last' = [op |-> "tick", res |-> "none", n |-> 0, raised |-> "none"]
    /\ UNCHANGED <<tasks, file, writable, nextId>>

\* a script run up to the UI: load_tasks() then move_incomplete_tasks()
Rerun(readable) ==
    LET loaded == load_tasks(tasks, readable)
        st == move_incomplete_tasks(loaded, today, nextId)
    IN /\ st.next <= MaxId + 1
       /\ tasks' = st.tasks
       /\ nextId' = st.next
       /\ file' = IF st.moved_count > 0 THEN save_tasks(st.tasks) ELSE file
       /\ last' = [op |-> "rerun", res |-> "none", n |-> st.moved_count,
                   raised |-> "none"]
       /\ UNCHANGED <<writable, today>>

\* the manual migration button: move_incomplete_tasks()
MoveIncompleteTasks ==
    LET st == move_incomplete_tasks(tasks, today, nextId)
    IN /\ st.next <= MaxId + 1
       /\ tasks' = st.tasks
       /\ nextId' = st.next
       /\ file' = IF st.moved_count > 0 THEN save_tasks(st.tasks) ELSE file
       /\ last' = [op |-> "move_incomplete_tasks", res |-> "none",
                   n |-> st.moved_count, raised |-> "none"]
       /\ UNCHANGED <<writable, today>>

\* faulty variant: the handler does not look at the title
AddTaskForm_unchecked(date_str, form) ==
    /\ nextId <= MaxId
    /\ NumTasks(tasks) < MaxTasks
    /\ tasks' = add_task(tasks, date_str, form.title, form.priority,
                         form.description, nextId, today)
    /\ nextId' = nextId + 1
    /\ file' = save_tasks(tasks')
    /\ last' = [op |-> "add_task", res |-> "added", n |-> 0, raised |-> "none"]
    /\ UNCHANGED <<writable, today>>

\* the add_task_form submit handler
AddTaskForm(date_str, form) ==
    IF form.title # ""
    THEN /\ nextId <= MaxId
         /\ NumTasks(tasks) < MaxTasks
         /\ tasks' = add_task(tasks, date_str, form.title, form.priority,
                              form.description, nextId, today)
         /\ nextId' = nextId + 1
         /\ file' = save_tasks(tasks')
         /\ last' = [op |-> "add_task", res |-> "added", n |-> 0, raised |-> "none"]
         /\ UNCHANGED <<writable, today>>
    ELSE /\ last' = [op |-> "add_task", res |-> "title_required", n |-> 0, raised |-> "none"]
         /\ UNCHANGED <<tasks, file, writable, today, nextId>>

ToggleTaskCompletion(date_str, task_id) ==
    /\ tasks' = toggle_task_completion(tasks, date_str, task_id)
    /\ file' = IF Found(tasks, date_str, task_id) THEN save_tasks(tasks') ELSE file
    /\ last' = [op |-> "toggle_task_completion",
                res |-> IF Found(tasks, date_str, task_id) THEN "found" ELSE "missing",
                n |-> 0, raised |-> "none"]
    /\ UNCHANGED <<writable, today, nextId>>

DeleteTask(date_str, task_id) ==
    /\ tasks' = delete_task(tasks, date_str, task_id)
    /\ file' = IF Found(tasks, date_str, task_id) THEN save_tasks(tasks') ELSE file
    /\ last' = [op |-> "delete_task",
                res |-> IF Found(tasks, date_str, task_id) THEN "found" ELSE "missing",
                n |-> 0, raised |-> "none"]
    /\ UNCHANGED <<writable, today, nextId>>

EditTask(old_date_str, task_id, new_date_str, form) ==
    /\ tasks' = edit_task(tasks, old_date_str, task_id, new_date_str,
                          form.title, form.priority, form.description, today)
    /\ file' = IF Found(tasks, old_date_str, task_id) THEN save_tasks(tasks') ELSE file
    /\ last' = [op |-> "edit_task",
                res |-> IF ~Found(tasks, old_date_str, task_id) THEN "missing"
                        ELSE IF old_date_str # new_date_str THEN "moved"
                        ELSE "in_place",
                n |-> 0, raised |-> "none"]
    /\ UNCHANGED <<writable, today, nextId>>

\* the restore button: restore_tasks_from_backup(uploaded_backup)
RestoreTasks(uploaded_file) ==
    LET r == restore_tasks_from_backup(tasks, uploaded_file)
    IN /\ tasks' = r.tasks
       /\ file' = IF r.ok THEN save_tasks(r.tasks) ELSE file
       /\ last' = [op |-> "restore_tasks_from_backup", res |-> r.err, n |-> 0, raised |-> "none"]
       /\ UNCHANGED <<writable, today, nextId>>

Next ==
    \/ NewSession
    \/ Tick
    \/ \E readable \in BOOLEAN : Rerun(readable)
    \/ MoveIncompleteTasks
    \/ \E date_str \in DateStrs, form \in AddForms : AddTaskForm(date_str, form)
    \/ \E date_str \in DateStrs, task_id \in Ids :
          ToggleTaskCompletion(date_str, task_id)
    \/ \E date_str \in DateStrs, task_id \in Ids : DeleteTask(date_str, task_id)
    \/ \E old_date_str \in DateStrs, task_id \in Ids, new_date_str \in DateStrs,
          form \in EditForms :
          /\ Found(tasks, old_date_str, task_id) \/ new_date_str = old_date_str
          /\ EditTask(old_date_str, task_id, new_date_str, form)
    \/ \E uploaded_file \in Uploads : RestoreTasks(uploaded_file)

\* local development: tasks.json can be written
Spec == Init /\ [][Next]_vars

\* a deployed environment: every write of tasks.json fails
InitDeployed ==
    /\ tasks = <<>>
    /\ file = NoFile
    /\ writable = FALSE
    /\ today = 1
    /\ nextId = 1
    /\ last = [op |-> "init", res |-> "none", n |-> 0, raised |-> "none"]

SpecDeployed == InitDeployed /\ [][Next]_vars

\* ------------------------------------------------- get_sorted_tasks alone
\* priorities of stored tasks: the three of the select box and one that
\* priority_order does not know (a restored backup may hold any string)
SortPriorities == {"High", "Medium", "Low", "Urgent"}

SortTitles == {"A", "B"}

\* task dicts as add_task and toggle_task_completion leave them
SortTasks ==
    [title : SortTitles, description : {""}, priority : SortPriorities,
     completed : BOOLEAN, created_at : {1}]

\* the bucket of the tasks ts; the ids were inserted in rising or in falling
\* order
SortBucket(ts, rising) ==
    [i \in DOMAIN ts |->
        [k |-> IF rising THEN i ELSE Len(ts) + 1 - i, v |-> ts[i]]]

\* the stores that are sorted: no bucket at all, or one bucket of up to
\* MaxLen tasks under day 1
InitSort ==
    /\ \/ tasks = <<>>
       \/ \E n \in 0..MaxLen : \E ts \in [1..n -> SortTasks], rising \in BOOLEAN :
             tasks = <<[k |-> strftime(1), v |-> SortBucket(ts, rising)]>>
    /\ writable = TRUE
    /\ file = save_tasks(tasks)
    /\ today = 1
    /\ nextId = NumTasks(tasks) + 1
    /\ last = [op |-> "init", res |-> [date_str |-> "", sorted_tasks |-> <<>>],
               n |-> 0, raised |-> "none"]

\* render_tasks_for_date: tasks = get_sorted_tasks(date_str)
GetSortedTasks(date_str) ==
    /\ last' = [op |-> "get_sorted_tasks",
                res |-> [date_str |-> date_str,
                         sorted_tasks |-> get_sorted_tasks(tasks, date_str)],
                n |-> 0, raised |-> "none"]
    /\ UNCHANGED <<tasks, file, writable, today, nextId>>

NextSort == \E date_str \in DateStrs : GetSortedTasks(date_str)

SpecSort == InitSort /\ [][NextSort]_vars

\* =================================================================== claims
\* every (position of bucket, position of entry) in the store
Places(store) ==
    UNION {{<<i, j>> : j \in DOMAIN store[i].v} : i \in DOMAIN store}

\* every task id in the store
AllIds(store) == UNION {Keys(store[i].v) : i \in DOMAIN store}

\* the places at which task_id is stored
PlacesOf(store, task_id) ==
    {p \in Places(store) : store[p[1]].v[p[2]].k = task_id}

\* the task stored under (date_str, task_id)
TaskAt(store, date_str, task_id) == Get(Get(store, date_str), task_id)

\* the (date, id) pairs of the store
Pairs(store) == {<<store[p[1]].k, store[p[1]].v[p[2]].k>> : p \in Places(store)}

\* a date has at most one bucket
OneBucketPerDate(store) ==
    \A i, j \in DOMAIN store : store[i].k = store[j].k => i = j

MovedStep == last'.op = "move_incomplete_tasks"

\* every task id of the store is stored at one place, in one bucket
C1_OneBucket ==
    /\ OneBucketPerDate(tasks)
    /\ \A task_id \in AllIds(tasks) : Cardinality(PlacesOf(tasks, task_id)) = 1

\* C1: every task id of the store is in exactly one date bucket, in every
\* reachable state; an edit (in place or to another date) keeps every id in
\* the store, and a rollover keeps the number of tasks, so a relocated task is
\* never in two buckets and never in none.
C1_ExactlyOneBucket ==
    /\ []C1_OneBucket
    /\ [][last'.op = "edit_task" => AllIds(tasks') = AllIds(tasks)]_vars
    /\ [][MovedStep => NumTasks(tasks') = NumTasks(tasks)]_vars

\* a task the rollover copied to today has then been moved on by an edit
C1_Witness ==
    /\ last.op = "edit_task" /\ last.res = "moved"
    /\ \E p \in Places(tasks) :
          /\ "moved_from" \in DOMAIN tasks[p[1]].v[p[2]].v
          /\ "modified_at" \in DOMAIN tasks[p[1]].v[p[2]].v
          /\ tasks[p[1]].k # strftime(today)

\* C2: no date key of the store maps to an empty bucket, in any reachable
\* state.
C2_NoEmptyBucket == \A i \in DOMAIN tasks : tasks[i].v # <<>>

\* C3: after move_incomplete_tasks no bucket dated before today holds an
\* incomplete task, every task that was completed in such a bucket is still
\* there under its id with the same fields, and every bucket dated after
\* today is unchanged.
C3_Rollover ==
    [][MovedStep =>
        /\ \A p \in Places(tasks') :
              is_past(tasks'[p[1]].k, today) => tasks'[p[1]].v[p[2]].v.completed
        /\ \A pr \in Pairs(tasks) :
              (is_past(pr[1], today) /\ TaskAt(tasks, pr[1], pr[2]).completed)
              => /\ Found(tasks', pr[1], pr[2])
                 /\ TaskAt(tasks', pr[1], pr[2]) = TaskAt(tasks, pr[1], pr[2])
        /\ \A day \in Days :
              day > today =>
                 /\ Has(tasks', strftime(day)) <=> Has(tasks, strftime(day))
                 /\ Has(tasks, strftime(day)) =>
                       Get(tasks', strftime(day)) = Get(tasks, strftime(day))
    ]_vars

\* a rollover has moved a task out of a past bucket that keeps a completed one
C3_Witness ==
    /\ last.op = "move_incomplete_tasks" /\ last.n > 0
    /\ \E p \in Places(tasks) :
          /\ is_past(tasks[p[1]].k, today)
          /\ tasks[p[1]].v[p[2]].v.completed
    /\ \E p \in Places(tasks) :
          /\ tasks[p[1]].k = strftime(today)
          /\ "moved_from" \in DOMAIN tasks[p[1]].v[p[2]].v

\* the incomplete tasks of past buckets, as (date, id) pairs
Candidates(store, day) ==
    {pr \in Pairs(store) :
        is_past(pr[1], day) /\ ~TaskAt(store, pr[1], pr[2]).completed}

\* C4: for every incomplete task of a past bucket, move_incomplete_tasks adds
\* to today's bucket exactly one task with a fresh id, the original's fields
\* and moved_from = the source date; the original id is gone from the store
\* and the number of tasks is unchanged.
C4_RolloverCopies ==
    [][MovedStep =>
        LET today_str == strftime(today)
            cand == Candidates(tasks, today)
            before == IF Has(tasks, today_str) THEN Keys(Get(tasks, today_str)) ELSE {}
            after == IF Has(tasks', today_str) THEN Keys(Get(tasks', today_str)) ELSE {}
            fresh == after \ before
        IN /\ before \subseteq after
           /\ fresh \cap AllIds(tasks) = {}
           /\ \E f \in [cand -> fresh] :
                 /\ \A a, b \in cand : f[a] = f[b] => a = b
                 /\ \A new_task_id \in fresh : \E a \in cand : f[a] = new_task_id
                 /\ \A a \in cand :
                       LET task == TaskAt(tasks, a[1], a[2])
                           copy == TaskAt(tasks', today_str, f[a])
                       IN /\ f[a] # a[2]
                          /\ DOMAIN copy = DOMAIN task \cup {"moved_from"}
                          /\ \A fld \in DOMAIN task \ {"moved_from"} :
                                copy[fld] = task[fld]
                          /\ copy.completed = FALSE
                          /\ copy.moved_from = a[1]
                          /\ a[2] \notin AllIds(tasks')
           /\ NumTasks(tasks') = NumTasks(tasks)
           /\ last'.n = Cardinality(cand)
    ]_vars

\* a rollover has copied a task that was created on an earlier day
C4_Witness ==
    /\ last.op = "move_incomplete_tasks" /\ last.n > 0
    /\ \E p \in Places(tasks) :
          LET task == tasks[p[1]].v[p[2]].v
          IN /\ tasks[p[1]].k = strftime(today)
             /\ "moved_from" \in DOMAIN task
             /\ task.created_at < today

\* C5: a second move_incomplete_tasks right after the first, on the same day,
\* moves no task and leaves the store and the snapshot as the first left them.
C5_RolloverIdempotent ==
    /\ [][MovedStep =>
            LET again == move_incomplete_tasks(tasks', today', nextId')
            IN again.tasks = tasks' /\ again.moved_count = 0 /\ again.next = nextId'
       ]_vars
    /\ [][(last.op = "move_incomplete_tasks" /\ MovedStep) =>
            tasks' = tasks /\ last'.n = 0 /\ file' = file /\ nextId' = nextId
       ]_vars

\* a rollover that moved tasks has run and a second one would find none
C5_Witness ==
    /\ last.op = "move_incomplete_tasks" /\ last.n > 0
    /\ Has(tasks, strftime(today))
    /\ move_incomplete_tasks(tasks, today, nextId).moved_count = 0

\* title, description, priority, completed and created_at of a task
Core(task) ==
    <<task.title, task.description, task.priority, task.completed,
      task.created_at>>

\* C6: when the snapshot file does not exist because no write succeeded, a
\* script run (load_tasks, then move_incomplete_tasks) leaves every task that
\* was in memory in the store.
C6_InMemorySurvives ==
    [][(last'.op = "rerun" /\ ~file.exists) =>
        /\ NumTasks(tasks') = NumTasks(tasks)
        /\ \A p \in Places(tasks) : \E q \in Places(tasks') :
              Core(tasks'[q[1]].v[q[2]].v) = Core(tasks[p[1]].v[p[2]].v)
    ]_vars

\* C7: edit_task to another date on a task that exists: the id leaves the old
\* bucket (which goes with its last task) and is in the new bucket with the
\* new title, priority and description, modified_at set, completed and
\* created_at as before and moved_from as it was, set or not; every other
\* task is unchanged.
C7_EditMoves ==
    [][(last'.op = "edit_task" /\ last'.res = "moved") =>
       \A old_date_str \in DateStrs, task_id \in Ids, new_date_str \in DateStrs,
          form \in EditForms :
        ( /\ old_date_str # new_date_str
          /\ Found(tasks, old_date_str, task_id)
          /\ EditTask(old_date_str, task_id, new_date_str, form) )
        => LET task == TaskAt(tasks, old_date_str, task_id)
               edited == TaskAt(tasks', new_date_str, task_id)
           IN /\ ~Found(tasks', old_date_str, task_id)
              /\ Keys(Get(tasks, old_date_str)) = {task_id}
                    => ~Has(tasks', old_date_str)
              /\ Found(tasks', new_date_str, task_id)
              /\ Cardinality(PlacesOf(tasks', task_id)) = 1
              /\ edited.title = form.title
              /\ edited.priority = form.priority
              /\ edited.description = form.description
              /\ "modified_at" \in DOMAIN edited
              /\ edited.modified_at = today
              /\ edited.completed = task.completed
              /\ edited.created_at = task.created_at
              /\ "moved_from" \in DOMAIN edited <=> "moved_from" \in DOMAIN task
              /\ "moved_from" \in DOMAIN task
                    => edited.moved_from = task.moved_from
              /\ Pairs(tasks') =
                    (Pairs(tasks) \ {<<old_date_str, task_id>>})
                    \cup {<<new_date_str, task_id>>}
              /\ \A pr \in Pairs(tasks) :
                    pr[2] # task_id
                    => TaskAt(tasks', pr[1], pr[2]) = TaskAt(tasks, pr[1], pr[2])
    ]_vars

\* an edit has moved a completed task created on an earlier day, next to
\* another task
C7_Witness ==
    /\ last.op = "edit_task" /\ last.res = "moved"
    /\ NumTasks(tasks) = 2
    /\ \E p \in Places(tasks) :
          LET task == tasks[p[1]].v[p[2]].v
          IN /\ "modified_at" \in DOMAIN task
             /\ task.modified_at = today
             /\ task.created_at < today
             /\ task.completed

\* C8 as claimed: edit_task on a task that does not exist at old_date_str
\* raises NotFoundError and leaves the store unchanged.
C8_NotFoundError ==
    [][(last'.op = "edit_task" /\ last'.res = "missing") =>
        last'.raised = "NotFoundError" /\ tasks' = tasks
    ]_vars

\* C8 as amended: edit_task on a task that does not exist at old_date_str
\* (the id is elsewhere, is gone, or the bucket is missing) raises nothing and
\* leaves the store and the snapshot unchanged.
C8_EditMissingIsNoOp ==
    [][(last'.op = "edit_task" /\ last'.res = "missing") =>
        /\ last'.raised = "none"
        /\ tasks' = tasks
        /\ file' = file
        /\ nextId' = nextId
    ]_vars

\* edit_task has been called for a task that is not there, on a store that
\* holds a task the rollover put under a new id
C8_Witness ==
    /\ last.op = "edit_task" /\ last.res = "missing"
    /\ \E p \in Places(tasks) : "moved_from" \in DOMAIN tasks[p[1]].v[p[2]].v

C10_AddThenList ==
    [][last'.op = "add_task" =>
       \A date_str \in DateStrs, form \in AddForms :
        (form.title # "" /\ AddTaskForm(date_str, form))
        => LET listed == get_sorted_tasks(tasks, date_str)
               relisted == get_sorted_tasks(tasks', date_str)
               old_ids == {listed[i].k : i \in DOMAIN listed}
               added == {i \in DOMAIN relisted : relisted[i].k \notin old_ids}
           IN /\ Len(relisted) = Len(listed) + 1
              /\ Cardinality(added) = 1
              /\ \A i \in added :
                    /\ relisted[i].k \notin AllIds(tasks)
                    /\ relisted[i].v.completed = FALSE
                    /\ relisted[i].v.title = form.title
                    /\ relisted[i].v.priority = form.priority
                    /\ relisted[i].v.description = form.description
                    /\ Pairs(tasks') = Pairs(tasks) \cup {<<date_str, relisted[i].k>>}
              /\ Has(tasks', date_str)
              /\ \A pr \in Pairs(tasks) :
                    TaskAt(tasks', pr[1], pr[2]) = TaskAt(tasks, pr[1], pr[2])
    ]_vars

\* a task has been added to a bucket that held a task already
C10_Witness ==
    /\ last.op = "add_task" /\ last.res = "added"
    /\ \E i \in DOMAIN tasks : Len(tasks[i].v) = 2

\* C11: toggle_task_completion on a task that exists flips its completed flag
\* and nothing else (same (date, id) pairs, every other field and every other
\* task as before), and a second call on the same task gives the store back;
\* on a (date, id) that does not exist it raises nothing and leaves the store
\* and the snapshot unchanged.
C11_ToggleFlips ==
    [][last'.op = "toggle_task_completion" =>
         \A date_str \in DateStrs, task_id \in Ids :
            ToggleTaskCompletion(date_str, task_id) =>
               IF Found(tasks, date_str, task_id)
               THEN /\ Pairs(tasks') = Pairs(tasks)
                    /\ TaskAt(tasks', date_str, task_id) =
                          [TaskAt(tasks, date_str, task_id) EXCEPT
                              !.completed = ~TaskAt(tasks, date_str, task_id).completed]
                    /\ \A p \in Pairs(tasks) \ {<<date_str, task_id>>} :
                          TaskAt(tasks', p[1], p[2]) = TaskAt(tasks, p[1], p[2])
                    /\ toggle_task_completion(tasks', date_str, task_id) = tasks
                    /\ last'.raised = "none"
               ELSE /\ tasks' = tasks
                    /\ file' = file
                    /\ last'.raised = "none"]_vars

\* a task has been toggled to completed next to a task that is not completed
C11_Witness ==
    /\ last.op = "toggle_task_completion"
    /\ last.res = "found"
    /\ \E p, q \in Pairs(tasks) :
          /\ TaskAt(tasks, p[1], p[2]).completed
          /\ ~TaskAt(tasks, q[1], q[2]).completed

\* C12: delete_task on a task that exists removes that (date, id) and leaves
\* every other task unchanged; when it was the last task of its bucket the
\* date key is gone, get_sorted_tasks of the date is empty and the exported
\* backup has no such key; on a (date, id) that does not exist the store and
\* the snapshot are unchanged.
C12_DeleteRemoves ==
    [][last'.op = "delete_task" =>
         \A date_str \in DateStrs, task_id \in Ids :
            DeleteTask(date_str, task_id) =>
               IF Found(tasks, date_str, task_id)
               THEN /\ Pairs(tasks') = Pairs(tasks) \ {<<date_str, task_id>>}
                    /\ \A p \in Pairs(tasks') :
                          TaskAt(tasks', p[1], p[2]) = TaskAt(tasks, p[1], p[2])
                    /\ Len(Get(tasks, date_str)) = 1 =>
                          /\ ~Has(tasks', date_str)
                          /\ get_sorted_tasks(tasks', date_str) = <<>>
                          /\ ~Has(json_load(backup_tasks_to_browser(tasks', today')).tasks,
                                  date_str)
               ELSE /\ tasks' = tasks
                    /\ file' = file]_vars

\* the last task of the last bucket has been deleted: the store has no date
\* key left and the snapshot written after the call has none either
C12_Witness ==
    /\ last.op = "delete_task"
    /\ last.res = "found"
    /\ tasks = <<>>
    /\ file.exists
    /\ nextId > 2

\* C14: in every reachable state, restoring the backup just made of the store
\* succeeds and gives a store with the same date keys, the same task ids under
\* each date and the same value of every field of every task (title,
\* description, priority, completed, created_at, modified_at, moved_from).
C14_RoundTrip ==
    LET r == restore_tasks_from_backup(<<>>, backup_tasks_to_browser(tasks, today))
    IN /\ r.ok
       /\ Keys(r.tasks) = Keys(tasks)
       /\ Pairs(r.tasks) = Pairs(tasks)
       /\ \A p \in Pairs(tasks) :
             LET t == TaskAt(tasks, p[1], p[2])
                 u == TaskAt(r.tasks, p[1], p[2])
             IN /\ DOMAIN u = DOMAIN t
                /\ \A name \in DOMAIN t : u[name] = t[name]

\* a backup has been restored whose store holds a completed task that was
\* edited and rolled over, so that every field of a task is present
C14_Witness ==
    /\ last.op = "restore_tasks_from_backup"
    /\ last.res = "none"
    /\ \E p \in Pairs(tasks) :
          LET t == TaskAt(tasks, p[1], p[2])
          IN /\ {"modified_at", "moved_from"} \subseteq DOMAIN t
             /\ t.completed

C16_SnapshotFresh ==
    [][(/\ tasks' # tasks
        /\ last'.op \in {"add_task", "toggle_task_completion", "delete_task",
                          "edit_task", "move_incomplete_tasks",
                          "restore_tasks_from_backup"})
         => /\ file'.exists
            /\ python_store(json_load(file')) = tasks']_vars

\* the rank the priority has in the order of the list
ListRank(priority) ==
    IF priority = "High" THEN 1
    ELSE IF priority = "Medium" THEN 2
    ELSE IF priority = "Low" THEN 3
    ELSE 4

\* task a may stand before task b: not completed before completed, then the
\* lower rank, then the title that is not greater
MayPrecede(a, b) ==
    \/ ~a.completed /\ b.completed
    \/ /\ a.completed = b.completed
       /\ \/ ListRank(a.priority) < ListRank(b.priority)
          \/ /\ ListRank(a.priority) = ListRank(b.priority)
             /\ TitleOrd[a.title] <= TitleOrd[b.title]

\* the bucket get_sorted_tasks reads, empty when the date has none
BucketOf(store, date_str) ==
    IF Has(store, date_str) THEN Get(store, date_str) ELSE <<>>

\* C13: get_sorted_tasks(date_str) returns the (id, task) entries of the
\* date's bucket, each once (the empty list without a bucket), so that every
\* entry may precede the next: not completed before completed, then rank
\* High=1, Medium=2, Low=3, any other priority=4, then title; the store is
\* not modified.
C13_SortedPermutation ==
    [][last'.op = "get_sorted_tasks" =>
         LET r == last'.res.sorted_tasks
             b == BucketOf(tasks, last'.res.date_str)
         IN /\ tasks' = tasks /\ file' = file
            /\ Len(r) = Len(b)
            /\ {r[i] : i \in DOMAIN r} = {b[i] : i \in DOMAIN b}
            /\ \A i \in 1..(Len(r) - 1) : MayPrecede(r[i].v, r[i + 1].v)]_vars

\* the list of a bucket inserted as (completed, High, A), (open, Low, A),
\* (open, High, B) has been returned in the order third, second, first:
\* completion before priority, priority before title
C13_Witness ==
    /\ last.op = "get_sorted_tasks"
    /\ Len(last.res.sorted_tasks) = 3
    /\ BucketOf(tasks, last.res.date_str)[1].v.completed
    /\ BucketOf(tasks, last.res.date_str)[1].v.priority = "High"
    /\ BucketOf(tasks, last.res.date_str)[1].v.title = "A"
    /\ ~BucketOf(tasks, last.res.date_str)[2].v.completed
    /\ BucketOf(tasks, last.res.date_str)[2].v.priority = "Low"
    /\ BucketOf(tasks, last.res.date_str)[2].v.title = "A"
    /\ ~BucketOf(tasks, last.res.date_str)[3].v.completed
    /\ BucketOf(tasks, last.res.date_str)[3].v.priority = "High"
    /\ BucketOf(tasks, last.res.date_str)[3].v.title = "B"
    /\ last.res.sorted_tasks[1] = BucketOf(tasks, last.res.date_str)[3]
    /\ last.res.sorted_tasks[2] = BucketOf(tasks, last.res.date_str)[2]
    /\ last.res.sorted_tasks[3] = BucketOf(tasks, last.res.date_str)[1]

\* the buckets that hold the same id-to-task mapping as bucket, in every
\* insertion order
Reorderings(bucket) ==
    {[i \in DOMAIN bucket |-> bucket[pi[i]]] : pi \in Permutations(DOMAIN bucket)}

\* the position of an entry in a bucket
PosIn(bucket, e) == CHOOSE i \in DOMAIN bucket : bucket[i] = e

\* C17 as claimed: a bucket with the same id-to-task mapping gives the same
\* list whatever the order in which its tasks were inserted, tasks with equal
\* completed, priority and title included.
C17_InsertionOrderIrrelevant ==
    \A date_str \in DateStrs :
       \A other \in Reorderings(BucketOf(tasks, date_str)) :
          sorted(other) = get_sorted_tasks(tasks, date_str)

\* C17 as amended: the list just returned is the list another call on the
\* unchanged store returns; a bucket with the same id-to-task mapping
\* inserted in another order gives a list with the same entries and, position
\* by position, the same key (completed, rank, title), and the same list when
\* no two tasks of the bucket have the same key; tasks with the same key
\* stand in the order in which they were inserted.
C17_SameUpToTies ==
    /\ [][last'.op = "get_sorted_tasks" =>
            last'.res.sorted_tasks = get_sorted_tasks(tasks', last'.res.date_str)]_vars
    /\ [](\A date_str \in Keys(tasks) :
            LET b == BucketOf(tasks, date_str)
                r == get_sorted_tasks(tasks, date_str)
            IN /\ \A other \in Reorderings(b) :
                     LET r2 == sorted(other)
                     IN /\ Len(r2) = Len(r)
                        /\ {r2[i] : i \in DOMAIN r2} = {r[i] : i \in DOMAIN r}
                        /\ \A i \in DOMAIN r : sort_key(r2[i].v) = sort_key(r[i].v)
                        /\ (\A i, j \in DOMAIN b :
                               sort_key(b[i].v) = sort_key(b[j].v) => i = j)
                              => r2 = r
               /\ \A i, j \in DOMAIN r :
                     (i < j /\ sort_key(r[i].v) = sort_key(r[j].v))
                        => PosIn(b, r[i]) < PosIn(b, r[j]))

\* the list of a bucket has been returned in which the task inserted first
\* has the higher id and two tasks have the same completed, priority and
\* title
C17_Witness ==
    /\ last.op = "get_sorted_tasks"
    /\ Len(last.res.sorted_tasks) >= 2
    /\ BucketOf(tasks, last.res.date_str)[1].k > BucketOf(tasks, last.res.date_str)[2].k
    /\ \E i, j \in DOMAIN last.res.sorted_tasks :
          /\ i # j
          /\ sort_key(last.res.sorted_tasks[i].v) = sort_key(last.res.sorted_tasks[j].v)

====


